---- MODULE Spec2Model ----
(***************************************************************************)
(* Matchmaking and relay server of ceople (backend/server.js).            *)
(*                                                                         *)
(* The server is one Node.js process: the code between two awaits runs    *)
(* atomically, and every awaited Supabase call is a point where other     *)
(* handlers run.  An awaited call takes effect in the database at one     *)
(* step (Db...), and the handler continues at a later step (Resume...)    *)
(* when its continuation touches in-memory state or emits; a continuation *)
(* that only issues the next call is merged into the database step.       *)
(***************************************************************************)
EXTENDS Integers, Sequences, FiniteSets, TLC

\* ---------------------------------------------------------------- bounds
MaxSockets == 2      \* connections the server accepts
MaxEvents == 2       \* client events (join-queue, send-message, ...) it handles
RaceSockets == 3     \* connections in the larger scenarios
RaceEvents == 3      \* client events of SpecRace
SerialEvents == 5    \* client events of SpecSerial
MaxAuthUsers == 3    \* identities the identity provider knows
MaxRooms == 5        \* room identifiers ever allocated
MaxFaults == 1       \* Supabase calls that fail for an external reason
MaxCloses == 1       \* connections that are closed
RoomEvents == 4      \* client events of SpecRoom
FaultEvents == 3     \* client events of SpecFault
HookEvents == 5      \* user actions and server events of SpecHook

SocketIds == 1..RaceSockets
RoomIds == 1..MaxRooms
ChatTypes == {"video", "text", "both"}
QueueTypes == {"video", "text"}     \* the types the concurrent specifications draw from
SerialTypes == {"video"}            \* the type the serial specification draws from
Contents == {"m1"}                  \* message and signal payloads
RoomContents == {"m1", "m2"}        \* the payloads SpecRoom draws from

\* A user identifier is a prefix and a rest: 'guest-' + random, or a UUID.
GuestPrefix == "guest-"
GuestId(s) == <<GuestPrefix, s>>
AuthId(k) == <<"", k>>
NoUser == <<"", 0>>
AllUserIds == {GuestId(s) : s \in SocketIds} \cup {AuthId(k) : k \in 1..MaxAuthUsers}

\* userId.startsWith('guest-')
StartsWithGuest(id) == id[1] = GuestPrefix

\* Handshake credentials: a token (valid for one user, or not) and a guest name.
Tokens == {<<"tok", k>> : k \in 1..MaxAuthUsers} \cup {<<"bad", 0>>}
NoToken == <<"none", 0>>
Credentials == [token : Tokens \cup {NoToken}, guestUsername : {"", "name"}]

\* the handshakes the environment presents
GuestCred == [token |-> NoToken, guestUsername |-> "name"]
TokenCred(k) == [token |-> <<"tok", k>>, guestUsername |-> ""]
BadTokenCred == [token |-> <<"bad", 0>>, guestUsername |-> "name"]
NoCred == [token |-> NoToken, guestUsername |-> ""]

\* supabase.auth.getUser(token): the user, or NoUser with an error
GetUser(token) == IF token[1] = "tok" THEN AuthId(token[2]) ELSE NoUser

VARIABLES
    sockets,            \* per connection: st, userId, isGuest, auth (socket.handshake.auth)
    activeUsers,        \* Map userId -> socket (0: no entry)
    waitingUsers,       \* Map userId -> {chatType, socket}, in insertion order
    user_queue,         \* table user_queue: rows [user_id, chat_type]
    chat_rooms,         \* table chat_rooms: id -> status ("none": no row)
    chat_participants,  \* table chat_participants: rows <<room_id, user_id>>
    messages,           \* table messages: rows [room_id, user_id, content]
    ioRooms,            \* socket.io rooms: roomId -> set of joined sockets
    tasks,              \* async handlers suspended at an await
    received,           \* per connection: the events the server emitted to it
    eventsLeft,         \* client events the environment will still send
    nRooms,             \* room identifiers allocated so far
    faultsLeft,         \* Supabase calls that may still fail for an external reason
    failed,             \* history: the calls that failed (user, handler, call, which join-queue)
    closesLeft,         \* connections the environment will still close
    hook,               \* the client hook useChatRoom of one browser tab
    requests,           \* history: per user, the chat types of its join-queue events, in order
    lastJoin,           \* history: chat type of a user's latest join-queue since its last match
    curRoom,            \* history: the room a user was last matched into and has not left
    matches,            \* history: the pairings findMatch completed
    strays,             \* history: relayed events delivered to a user whose current room is another
    sent                \* history: per connection, its send-message events <<roomId, content>>, in order

vars == <<sockets, activeUsers, waitingUsers, user_queue, chat_rooms, chat_participants,
          messages, ioRooms, tasks, received, eventsLeft, nRooms, faultsLeft, failed,
          closesLeft, hook, requests, lastJoin, curRoom, matches, strays, sent>>

db == <<user_queue, chat_rooms, chat_participants, messages>>
hist == <<requests, lastJoin, curRoom, matches, strays, sent>>
env == <<eventsLeft, faultsLeft, failed, closesLeft, hook>>

\* ------------------------------------------------------------ JS Map
MapHas(m, id) == \E i \in 1..Len(m) : m[i].id = id
MapGet(m, id) == m[CHOOSE i \in 1..Len(m) : m[i].id = id]
\* Map.prototype.set: an existing key keeps its place, a new key goes last
MapSet(m, id, ct, s) ==
    LET e == [id |-> id, chatType |-> ct, socket |-> s]
    IN IF MapHas(m, id)
       THEN [i \in 1..Len(m) |-> IF m[i].id = id THEN e ELSE m[i]]
       ELSE Append(m, e)
MapDelete(m, id) == SelectSeq(m, LAMBDA e : e.id # id)

\* ------------------------------------------------------------ events
MatchFound(r, ct, init) ==
    [ev |-> "match-found", roomId |-> r, chatType |-> ct, isInitiator |-> init,
     from |-> NoUser, content |-> ""]
NewMessage(r, uid, c) ==
    [ev |-> "new-message", roomId |-> r, chatType |-> "", isInitiator |-> FALSE,
     from |-> uid, content |-> c]
\* the payload is {signal, fromUserId, targetUserId}; roomId records the scope it was relayed to
SignalEvent(r, uid, c) ==
    [ev |-> "webrtc-signal", roomId |-> r, chatType |-> "", isInitiator |-> FALSE,
     from |-> uid, content |-> c]
UserLeft(r) ==
    [ev |-> "user-left", roomId |-> r, chatType |-> "", isInitiator |-> FALSE,
     from |-> NoUser, content |-> ""]
ErrorEvent(msg) ==
    [ev |-> "error", roomId |-> 0, chatType |-> "", isInitiator |-> FALSE,
     from |-> NoUser, content |-> msg]

Open(s) == sockets[s].st = "open"

\* socket.emit(e): a packet for a closed connection is discarded
Emit(rcv, s, e) == IF Open(s) THEN [rcv EXCEPT ![s] = Append(@, e)] ELSE rcv

\* socket.to(roomId).emit(e): every socket joined to roomId except the sender
Audience(r, s) == IF r \in RoomIds THEN ioRooms[r] \ {s} ELSE {}
Broadcast(rcv, r, s, e) ==
    [x \in SocketIds |-> IF x \in Audience(r, s) THEN Append(rcv[x], e) ELSE rcv[x]]

\* history: deliveries of a relayed event to users whose current room is not r
Strays(r, s, kind) ==
    {[ev |-> kind, roomId |-> r, to |-> sockets[x].userId] :
        x \in {y \in Audience(r, s) : curRoom[sockets[y].userId] # r}}

\* The server after start-up, before any connection; e and f bound the environment
InitWith(e, f, d) ==
    /\ sockets = [s \in SocketIds |-> [st |-> "new", userId |-> NoUser, isGuest |-> FALSE, auth |-> NoCred]]
    /\ activeUsers = [u \in AllUserIds |-> 0]
    /\ waitingUsers = <<>>
    /\ user_queue = {}
    /\ chat_rooms = [r \in RoomIds |-> "none"]
    /\ chat_participants = {}
    /\ messages = {}
    /\ ioRooms = [r \in RoomIds |-> {}]
    /\ tasks = {}
    /\ received = [s \in SocketIds |-> <<>>]
    /\ eventsLeft = e
    /\ nRooms = 0
    /\ faultsLeft = f
    /\ failed = {}
    /\ hook = [isInQueue |-> FALSE, isInRoom |-> FALSE, roomId |-> 0, timers |-> 0,
               chatType |-> "", queued |-> FALSE, joined |-> 0, emitted |-> <<>>]
    /\ closesLeft = d
    /\ requests = [u \in AllUserIds |-> <<>>]
    /\ lastJoin = [u \in AllUserIds |-> ""]
    /\ curRoom = [u \in AllUserIds |-> 0]
    /\ matches = <<>>
    /\ strays = {}
    /\ sent = [s \in SocketIds |-> <<>>]


\* ------------------------------------------------------- connections
\* io.use middleware followed by io.on('connection')
IdentityMutant(cred) ==
    IF cred.token = NoToken
    THEN "guest"
    ELSE IF GetUser(cred.token) = NoUser THEN "refused" ELSE "user"
Identity(cred) ==
    IF cred.token = NoToken
    THEN IF cred.guestUsername # "" THEN "guest" ELSE "refused"
    ELSE IF GetUser(cred.token) = NoUser THEN "refused" ELSE "user"

Connect(s, cred) ==
    /\ sockets[s].st = "new"
    /\ s > 1 => sockets[s - 1].st # "new"
    /\ LET tier == Identity(cred)
           uid == IF tier = "guest" THEN GuestId(s) ELSE GetUser(cred.token)
       IN IF tier = "refused"
          THEN /\ sockets' = [sockets EXCEPT ![s].st = "refused", ![s].auth = cred]
               /\ UNCHANGED activeUsers
          ELSE /\ sockets' = [sockets EXCEPT ![s] =
                        [st |-> "open", userId |-> uid, isGuest |-> tier = "guest", auth |-> cred]]
               /\ activeUsers' = [activeUsers EXCEPT ![uid] = s]
    /\ UNCHANGED <<waitingUsers, db, ioRooms, tasks, received, nRooms, env, hist>>

\* A handler suspended at an await: its socket, its arguments, where it stands.
\* n tells apart handlers that are alike in everything else.
TaskOf(n, op, s, pc, ct, r, c) ==
    [n |-> n, op |-> op, s |-> s, uid |-> sockets[s].userId, pc |-> pc,
     chatType |-> ct, roomId |-> r, other |-> NoUser, content |-> c]
NewTask(op, s, pc, ct, r, c) ==
    LET used == {t.n : t \in {x \in tasks : [x EXCEPT !.n = 0, !.pc = pc, !.other = NoUser]
                                            = TaskOf(0, op, s, pc, ct, r, c)}}
    IN TaskOf(CHOOSE n \in 0..Cardinality(used) : n \notin used, op, s, pc, ct, r, c)

\* socket.on('disconnect'): socket.io has already left every room
Disconnect(s) ==
    /\ Open(s)
    /\ closesLeft > 0
    /\ closesLeft' = closesLeft - 1
    /\ sockets' = [sockets EXCEPT ![s].st = "closed"]
    /\ ioRooms' = [r \in RoomIds |-> ioRooms[r] \ {s}]
    /\ activeUsers' = [activeUsers EXCEPT ![sockets[s].userId] = 0]
    /\ waitingUsers' = MapDelete(waitingUsers, sockets[s].userId)
    /\ tasks' = tasks \cup {NewTask("disconnect", s, "dc_delete", "", 0, "")}
    /\ lastJoin' = [lastJoin EXCEPT ![sockets[s].userId] = ""]
    /\ UNCHANGED <<db, received, eventsLeft, nRooms, faultsLeft, failed, hook, requests, curRoom, matches, strays, sent>>

\* ------------------------------------------------------- findMatch
\* data.chatType === chatType  /  .eq('chat_type', chatType)
SameChatTypeMutant(waiterType, callerType) == waiterType # callerType
SameChatType(waiterType, callerType) == waiterType = callerType

\* id !== userId  /  .neq('user_id', userId)
NotSelfMutant(id, userId) == TRUE
NotSelf(id, userId) == id # userId

\* Array.from(waitingUsers.entries()).find(...): index of the first match, 0 if none
GuestCandidatesMutant(wu, userId, chatType) ==
    {i \in 1..Len(wu) :
        /\ NotSelf(wu[i].id, userId)
        /\ SameChatType(wu[i].chatType, chatType)}
GuestCandidates(wu, userId, chatType) ==
    {i \in 1..Len(wu) :
        /\ NotSelf(wu[i].id, userId)
        /\ SameChatType(wu[i].chatType, chatType)
        /\ StartsWithGuest(wu[i].id)}
FindGuest(wu, userId, chatType) ==
    LET c == GuestCandidates(wu, userId, chatType)
    IN IF c = {} THEN 0 ELSE CHOOSE i \in c : \A j \in c : i <= j

\* "Notify both users" and "Remove from waiting users", over the waiting map wu
NotifyMatch(wu, userId, otherUserId, roomId, chatType) ==
    LET userSocket == activeUsers[userId]
        otherUserSocket == activeUsers[otherUserId]
        joined == {userSocket, otherUserSocket} \ {0}
        r1 == IF userSocket # 0
              THEN Emit(received, userSocket, MatchFound(roomId, chatType, TRUE))
              ELSE received
        r2 == IF otherUserSocket # 0
              THEN Emit(r1, otherUserSocket, MatchFound(roomId, chatType, FALSE))
              ELSE r1
    IN /\ ioRooms' = [ioRooms EXCEPT ![roomId] = @ \cup joined]
       /\ received' = r2
       /\ waitingUsers' = MapDelete(MapDelete(wu, userId), otherUserId)
       /\ matches' = Append(matches, [roomId |-> roomId, caller |-> userId,
                                       partner |-> otherUserId, chatType |-> chatType])
       /\ curRoom' = [curRoom EXCEPT ![userId] = roomId, ![otherUserId] = roomId]
       /\ lastJoin' = [u \in AllUserIds |->
                         IF u \in {userId, otherUserId} THEN "" ELSE lastJoin[u]]

\* ------------------------------------------------------- join-queue
\* socket.on('join-queue'): a guest is queued and matched in memory, without an
\* await; an authenticated user starts with the delete of its user_queue row
JoinQueue(s, chatType) ==
    /\ Open(s)
    /\ eventsLeft > 0
    /\ eventsLeft' = eventsLeft - 1
    /\ LET uid == sockets[s].userId
           wu == MapSet(waitingUsers, uid, chatType, s)
           i == FindGuest(wu, uid, chatType)
       IN IF sockets[s].isGuest
          THEN /\ UNCHANGED tasks
               /\ IF i = 0
                  THEN /\ waitingUsers' = wu
                       /\ lastJoin' = [lastJoin EXCEPT ![uid] = chatType]
                       /\ UNCHANGED <<ioRooms, received, nRooms, curRoom, matches>>
                  ELSE /\ nRooms < MaxRooms
                       /\ nRooms' = nRooms + 1
                       /\ NotifyMatch(wu, uid, wu[i].id, nRooms + 1, chatType)
          ELSE /\ tasks' = tasks \cup
                     {NewTask("join-queue", s, "jq_delete", chatType, 0, "")}
               /\ lastJoin' = [lastJoin EXCEPT ![uid] = chatType]
               /\ UNCHANGED <<waitingUsers, ioRooms, received, nRooms, curRoom, matches>>
    /\ requests' = [requests EXCEPT ![sockets[s].userId] = Append(@, chatType)]
    /\ UNCHANGED <<sockets, activeUsers, db, faultsLeft, failed, hook, closesLeft, strays, sent>>

\* ------------------------------------------------------- awaited calls
At(t, pc) == t \in tasks /\ t.pc = pc
Goto(t, pc) == (tasks \ {t}) \cup {[t EXCEPT !.pc = pc]}
Done(t) == tasks \ {t}

mem == <<sockets, activeUsers, waitingUsers, ioRooms, received>>

\* join-queue: user_queue.delete().eq('user_id', socket.userId), then the insert is issued
DbQueueDelete(t) ==
    /\ At(t, "jq_delete")
    /\ user_queue' = {q \in user_queue : q.user_id # t.uid}
    /\ tasks' = Goto(t, "jq_insert")
    /\ UNCHANGED <<mem, chat_rooms, chat_participants, messages, nRooms, env, hist>>

\* join-queue: user_queue.insert({user_id, chat_type}); user_id is UNIQUE
DbQueueInsert(t) ==
    /\ At(t, "jq_insert")
    /\ IF \E q \in user_queue : q.user_id = t.uid
       THEN /\ tasks' = Goto(t, "jq_insert_error")
            /\ UNCHANGED user_queue
       ELSE /\ tasks' = Goto(t, "jq_inserted")
            /\ user_queue' = user_queue \cup {[user_id |-> t.uid, chat_type |-> t.chatType]}
    /\ UNCHANGED <<mem, chat_rooms, chat_participants, messages, nRooms, env, hist>>

\* join-queue after the insert: the error event, or waitingUsers.set and the
\* call of findMatch, which issues its select
ResumeJoinQueueMutant(t) ==
    /\ t \in tasks
    /\ t.pc \in {"jq_inserted", "jq_insert_error"}
    /\ IF t.pc = "jq_insert_error"
       THEN /\ received' = Emit(received, t.s, ErrorEvent("Failed to join queue"))
            /\ tasks' = Done(t)
            /\ waitingUsers' = MapSet(waitingUsers, t.uid, t.chatType, t.s)
       ELSE /\ waitingUsers' = MapSet(waitingUsers, t.uid, t.chatType, t.s)
            /\ tasks' = Goto(t, "fm_select")
            /\ UNCHANGED received
    /\ UNCHANGED <<sockets, activeUsers, ioRooms, db, nRooms, env, hist>>
ResumeJoinQueue(t) ==
    /\ t \in tasks
    /\ t.pc \in {"jq_inserted", "jq_insert_error"}
    /\ IF t.pc = "jq_insert_error"
       THEN /\ received' = Emit(received, t.s, ErrorEvent("Failed to join queue"))
            /\ tasks' = Done(t)
            /\ UNCHANGED waitingUsers
       ELSE /\ waitingUsers' = MapSet(waitingUsers, t.uid, t.chatType, t.s)
            /\ tasks' = Goto(t, "fm_select")
            /\ UNCHANGED received
    /\ UNCHANGED <<sockets, activeUsers, ioRooms, db, nRooms, env, hist>>

\* findMatch: user_queue.select('user_id').eq('chat_type', chatType)
\*   .neq('user_id', userId).limit(1).single(); no ORDER BY, so any matching row
QueueCandidates(userId, chatType) ==
    {q \in user_queue : SameChatType(q.chat_type, chatType) /\ NotSelf(q.user_id, userId)}

DbSelectMutant(t) ==
    /\ At(t, "fm_select")
    /\ tasks' = Done(t)
    /\ UNCHANGED <<mem, db, nRooms, env, hist>>
DbSelect(t) ==
    /\ At(t, "fm_select")
    /\ IF QueueCandidates(t.uid, t.chatType) = {}
       THEN tasks' = Done(t)
       ELSE \E q \in QueueCandidates(t.uid, t.chatType) :
                tasks' = (tasks \ {t}) \cup {[t EXCEPT !.pc = "fm_room", !.other = q.user_id]}
    /\ UNCHANGED <<mem, db, nRooms, env, hist>>

\* findMatch: chat_rooms.insert({status: 'active'}).select().single()
DbRoomInsert(t) ==
    /\ At(t, "fm_room")
    /\ nRooms < MaxRooms
    /\ nRooms' = nRooms + 1
    /\ chat_rooms' = [chat_rooms EXCEPT ![nRooms + 1] = "active"]
    /\ tasks' = (tasks \ {t}) \cup {[t EXCEPT !.pc = "fm_participants", !.roomId = nRooms + 1]}
    /\ UNCHANGED <<mem, user_queue, chat_participants, messages, env, hist>>

\* findMatch: chat_participants.insert([{room_id, user_id: userId},
\*   {room_id, user_id: otherUserId}]); (room_id, user_id) is UNIQUE
ParticipantRows(t) == {<<t.roomId, t.uid>>, <<t.roomId, t.other>>}

DbParticipantsInsert(t) ==
    /\ At(t, "fm_participants")
    /\ IF t.uid = t.other \/ ParticipantRows(t) \cap chat_participants # {}
       THEN /\ tasks' = Done(t)
            /\ UNCHANGED chat_participants
       ELSE /\ tasks' = Goto(t, "fm_queue_delete")
            /\ chat_participants' = chat_participants \cup ParticipantRows(t)
    /\ UNCHANGED <<mem, user_queue, chat_rooms, messages, nRooms, env, hist>>

\* findMatch: user_queue.delete().in('user_id', [userId, otherUserId])
DbQueueDeleteBoth(t) ==
    /\ At(t, "fm_queue_delete")
    /\ user_queue' = {q \in user_queue : q.user_id \notin {t.uid, t.other}}
    /\ tasks' = Goto(t, "fm_notify")
    /\ UNCHANGED <<mem, chat_rooms, chat_participants, messages, nRooms, env, hist>>

\* findMatch after the queue delete: notify both users, remove them from waitingUsers
ResumeNotify(t) ==
    /\ At(t, "fm_notify")
    /\ NotifyMatch(waitingUsers, t.uid, t.other, t.roomId, t.chatType)
    /\ tasks' = Done(t)
    /\ UNCHANGED <<sockets, activeUsers, db, env, nRooms, requests, strays, sent>>

\* disconnect: user_queue.delete().eq('user_id', socket.userId)
DbDisconnectDelete(t) ==
    /\ At(t, "dc_delete")
    /\ user_queue' = {q \in user_queue : q.user_id # t.uid}
    /\ tasks' = Done(t)
    /\ UNCHANGED <<mem, chat_rooms, chat_participants, messages, nRooms, env, hist>>

\* ------------------------------------------------------- relay
Relay(r, s, e) ==
    /\ received' = Broadcast(received, r, s, e)
    /\ strays' = strays \cup Strays(r, s, e.ev)

\* socket.on('send-message'): a guest's message is broadcast at once, an
\* authenticated user's after the insert into messages
SendMessage(s, roomId, content) ==
    /\ Open(s)
    /\ eventsLeft > 0
    /\ eventsLeft' = eventsLeft - 1
    /\ IF sockets[s].isGuest
       THEN /\ Relay(roomId, s, NewMessage(roomId, sockets[s].userId, content))
            /\ UNCHANGED tasks
       ELSE /\ tasks' = tasks \cup
                  {NewTask("send-message", s, "sm_insert", "", roomId, content)}
            /\ UNCHANGED <<received, strays>>
    /\ sent' = [sent EXCEPT ![s] = Append(@, <<roomId, content>>)]
    /\ UNCHANGED <<sockets, activeUsers, waitingUsers, ioRooms, db, nRooms, faultsLeft, failed, hook, closesLeft,
                   requests, lastJoin, curRoom, matches>>

\* send-message: messages.insert({room_id, user_id, content, message_type});
\* room_id REFERENCES chat_rooms(id)
DbMessageInsert(t) ==
    /\ At(t, "sm_insert")
    /\ IF chat_rooms[t.roomId] = "none"
       THEN /\ tasks' = Done(t)
            /\ UNCHANGED messages
       ELSE /\ tasks' = Goto(t, "sm_broadcast")
            /\ messages' = messages \cup
                  {[n |-> t.n, room_id |-> t.roomId, user_id |-> t.uid, content |-> t.content]}
    /\ UNCHANGED <<mem, user_queue, chat_rooms, chat_participants, nRooms, env, hist>>

\* send-message after a successful insert: socket.to(roomId).emit('new-message')
ResumeSendMessage(t) ==
    /\ At(t, "sm_broadcast")
    /\ Relay(t.roomId, t.s, NewMessage(t.roomId, t.uid, t.content))
    /\ tasks' = Done(t)
    /\ UNCHANGED <<sockets, activeUsers, waitingUsers, ioRooms, db, env, nRooms,
                   requests, lastJoin, curRoom, matches, sent>>

\* socket.on('webrtc-signal'): socket.to(roomId).emit('webrtc-signal'), no await
WebrtcSignal(s, roomId, signal) ==
    /\ Open(s)
    /\ eventsLeft > 0
    /\ eventsLeft' = eventsLeft - 1
    /\ Relay(roomId, s, SignalEvent(roomId, sockets[s].userId, signal))
    /\ UNCHANGED <<sockets, activeUsers, waitingUsers, ioRooms, tasks, db, nRooms, faultsLeft, failed, hook, closesLeft,
                   requests, lastJoin, curRoom, matches, sent>>

\* ------------------------------------------------------- leave-room
\* socket.on('leave-room'): the update of chat_rooms is issued
LeaveRoom(s, roomId) ==
    /\ Open(s)
    /\ eventsLeft > 0
    /\ eventsLeft' = eventsLeft - 1
    /\ tasks' = tasks \cup {NewTask("leave-room", s, "lr_update", "", roomId, "")}
    /\ UNCHANGED <<mem, db, nRooms, faultsLeft, failed, hook, closesLeft, hist>>

\* leave-room: chat_rooms.update({status: 'ended', ended_at}).eq('id', roomId);
\* a guest room has no row
DbRoomUpdateMutant(t) ==
    /\ At(t, "lr_update")
    /\ chat_rooms' = [chat_rooms EXCEPT ![t.roomId] =
                         IF @ = "none" THEN @ ELSE IF @ = "ended" THEN "active" ELSE "ended"]
    /\ tasks' = Goto(t, "lr_participants")
    /\ UNCHANGED <<mem, user_queue, chat_participants, messages, nRooms, env, hist>>
DbRoomUpdate(t) ==
    /\ At(t, "lr_update")
    /\ chat_rooms' = [chat_rooms EXCEPT ![t.roomId] = IF @ = "none" THEN @ ELSE "ended"]
    /\ tasks' = Goto(t, "lr_participants")
    /\ UNCHANGED <<mem, user_queue, chat_participants, messages, nRooms, env, hist>>

\* leave-room: chat_participants.delete().eq('room_id', roomId)
DbParticipantsDelete(t) ==
    /\ At(t, "lr_participants")
    /\ chat_participants' = {p \in chat_participants : p[1] # t.roomId}
    /\ tasks' = Goto(t, "lr_notify")
    /\ UNCHANGED <<mem, user_queue, chat_rooms, messages, nRooms, env, hist>>

\* leave-room after the two calls: socket.to(roomId).emit('user-left'); socket.leave(roomId)
ResumeLeaveRoomMutant(t) ==
    /\ At(t, "lr_notify")
    /\ received' = Broadcast(received, t.roomId, t.s, UserLeft(t.roomId))
    /\ curRoom' = [curRoom EXCEPT ![t.uid] = IF @ = t.roomId THEN 0 ELSE @]
    /\ tasks' = Done(t)
    /\ UNCHANGED <<sockets, activeUsers, waitingUsers, ioRooms, db, env, nRooms,
                   requests, lastJoin, matches, strays, sent>>
ResumeLeaveRoom(t) ==
    /\ At(t, "lr_notify")
    /\ received' = Broadcast(received, t.roomId, t.s, UserLeft(t.roomId))
    /\ ioRooms' = [ioRooms EXCEPT ![t.roomId] = @ \ {t.s}]
    /\ curRoom' = [curRoom EXCEPT ![t.uid] = IF @ = t.roomId THEN 0 ELSE @]
    /\ tasks' = Done(t)
    /\ UNCHANGED <<sockets, activeUsers, waitingUsers, db, env, nRooms,
                   requests, lastJoin, matches, strays, sent>>

\* ------------------------------------------------------- failed calls
\* A Supabase call that fails for an external reason changes no table and
\* resolves with an error; the handler goes on as its code does on an error.
AfterError(pc) ==
    CASE pc = "jq_delete" -> "jq_insert"
      [] pc = "jq_insert" -> "jq_insert_error"
      [] pc = "fm_queue_delete" -> "fm_notify"
      [] pc = "lr_update" -> "lr_participants"
      [] pc = "lr_participants" -> "lr_notify"
      [] OTHER -> "return"
DbPcs == {"jq_delete", "jq_insert", "fm_select", "fm_room", "fm_participants",
          "fm_queue_delete", "sm_insert", "lr_update", "lr_participants", "dc_delete"}

DbFault(t) ==
    /\ t \in tasks
    /\ t.pc \in DbPcs
    /\ faultsLeft > 0
    /\ faultsLeft' = faultsLeft - 1
    /\ failed' = failed \cup {[uid |-> t.uid, op |-> t.op, pc |-> t.pc,
                                k |-> Len(requests[t.uid])]}
    /\ tasks' = IF AfterError(t.pc) = "return" THEN Done(t) ELSE Goto(t, AfterError(t.pc))
    /\ UNCHANGED <<mem, db, eventsLeft, closesLeft, hook, nRooms, hist>>

\* ------------------------------------------------------- environment
\* Users are interchangeable: the next new user to sign in is the one with the
\* least index that has not yet connected.
SignedIn == {k \in 1..MaxAuthUsers : \E s \in SocketIds : sockets[s].userId = AuthId(k)}
Arrivals == {TokenCred(k) : k \in {j \in 1..MaxAuthUsers : \A i \in 1..(j - 1) : i \in SignedIn}}

\* ------------------------------------------------------- client hook
\* useChatRoom of one browser tab, connected.  hook holds its state
\* (isInQueue, isInRoom, roomId; 0: null), the pending callbacks of the
\* setTimeout in its user-left handler (timers), what the server holds for its
\* connection (queued: a waiting entry; joined: the room its socket is in), and
\* as history the chat type of the user's latest joinQueue call (chatType) and
\* the join-queue events it emitted (emitted).
server == <<mem, db, tasks, nRooms, faultsLeft, failed, closesLeft, hist>>
HookTypes == {"video", "text"}

\* the buttons shown: the Start buttons when neither waiting nor in a room,
\* Cancel while waiting, Next and Leave in a room
CanStart == ~hook.isInQueue /\ ~hook.isInRoom
CanLeave == hook.isInQueue \/ hook.isInRoom

\* joinQueue(chatType): emit join-queue {chatType}; isInQueue: true
joinQueue(chatType) ==
    /\ CanStart
    /\ eventsLeft > 0
    /\ eventsLeft' = eventsLeft - 1
    /\ hook' = [hook EXCEPT !.isInQueue = TRUE,
                            !.chatType = chatType,
                            !.queued = TRUE,
                            !.emitted = Append(@, [chatType |-> chatType, auto |-> FALSE])]
    /\ UNCHANGED server

\* leaveRoom(): emit leave-room if state.roomId is set; isInRoom, isInQueue:
\* false, roomId: null.  The server's leave-room takes the socket out of the room.
leaveRoom ==
    /\ CanLeave
    /\ eventsLeft > 0
    /\ eventsLeft' = eventsLeft - 1
    /\ hook' = [hook EXCEPT !.isInQueue = FALSE, !.isInRoom = FALSE, !.roomId = 0,
                            !.joined = IF hook.roomId # 0 /\ hook.roomId = @ THEN 0 ELSE @]
    /\ UNCHANGED server

\* socket.on('match-found'): roomId, isInRoom: true, isInQueue: false.  The
\* server sends it to a connection it holds in the waiting pool.
OnMatchFound(roomId) ==
    /\ hook.queued
    /\ roomId # hook.joined
    /\ eventsLeft > 0
    /\ eventsLeft' = eventsLeft - 1
    /\ hook' = [hook EXCEPT !.isInQueue = FALSE, !.isInRoom = TRUE, !.roomId = roomId,
                            !.queued = FALSE, !.joined = roomId]
    /\ UNCHANGED server

\* socket.on('user-left'): isInRoom: false, isInQueue: true, roomId: null, and
\* setTimeout(..., 1000).  The server sends it to the sockets joined to the room.
OnUserLeft ==
    /\ hook.joined # 0
    /\ eventsLeft > 0
    /\ eventsLeft' = eventsLeft - 1
    /\ hook' = [hook EXCEPT !.isInQueue = TRUE, !.isInRoom = FALSE, !.roomId = 0,
                            !.timers = @ + 1]
    /\ UNCHANGED server

\* the callback of that setTimeout: if (socketRef.current)
\*   socketRef.current.emit('join-queue', { chatType: 'video' })
Rejoin ==
    /\ hook.timers > 0
    /\ hook' = [hook EXCEPT !.timers = @ - 1,
                            !.queued = TRUE,
                            !.emitted = Append(@, [chatType |-> "video", auto |-> TRUE])]
    /\ UNCHANGED <<server, eventsLeft>>

\* ------------------------------------------------------- specification
MatchStep(t) ==
    \/ DbQueueDelete(t)
    \/ DbQueueInsert(t)
    \/ ResumeJoinQueue(t)
    \/ DbSelect(t)
    \/ DbRoomInsert(t)
    \/ DbParticipantsInsert(t)
    \/ DbQueueDeleteBoth(t)
    \/ ResumeNotify(t)

RelayStep(t) ==
    \/ DbMessageInsert(t)
    \/ ResumeSendMessage(t)

LeaveStep(t) ==
    \/ DbRoomUpdate(t)
    \/ DbParticipantsDelete(t)
    \/ ResumeLeaveRoom(t)

\* Matchmaking: connections of both tiers, join-queue and findMatch, every
\* interleaving of the handlers at their awaits.  Relay and leave-room read
\* and write none of the state findMatch reads (waitingUsers, activeUsers,
\* user_queue), so they are left to the specifications below.
Next ==
    \/ \E s \in 1..MaxSockets, cred \in Arrivals \cup {GuestCred} : Connect(s, cred)
    \/ \E s \in SocketIds, ct \in QueueTypes : JoinQueue(s, ct)
    \/ \E t \in tasks : MatchStep(t)

Init == InitWith(MaxEvents, 0, 0)
Spec == Init /\ [][Next]_vars

\* The same handlers with one more connection and one more event: three users
\* racing for one waiter, a waiter that re-queues while it is being paired.
NextRace ==
    \/ \E s \in 1..RaceSockets, cred \in Arrivals \cup {GuestCred} : Connect(s, cred)
    \/ \E s \in SocketIds, ct \in QueueTypes : JoinQueue(s, ct)
    \/ \E t \in tasks : MatchStep(t)

SpecRace == InitWith(RaceEvents, 0, 0) /\ [][NextRace]_vars

\* Matchmaking over every chat type, the wildcard included.
NextTypes ==
    \/ \E s \in 1..MaxSockets, cred \in Arrivals \cup {GuestCred} : Connect(s, cred)
    \/ \E s \in SocketIds, ct \in ChatTypes : JoinQueue(s, ct)
    \/ \E t \in tasks : MatchStep(t)

SpecTypes == InitWith(MaxEvents, 0, 0) /\ [][NextTypes]_vars

\* Matchmaking while connections close.
NextClose ==
    \/ \E s \in 1..MaxSockets, cred \in Arrivals \cup {GuestCred} : Connect(s, cred)
    \/ \E s \in SocketIds : Disconnect(s)
    \/ \E s \in SocketIds, ct \in QueueTypes : JoinQueue(s, ct)
    \/ \E t \in tasks : MatchStep(t)
    \/ \E t \in tasks : DbDisconnectDelete(t)

SpecClose == InitWith(MaxEvents, 0, MaxCloses) /\ [][NextClose]_vars

\* Handshakes of every kind, the refused ones included, and the events the
\* accepted connections send.
Handshakes == Arrivals \cup {GuestCred, BadTokenCred, NoCred}
NextAuth ==
    \/ \E s \in 1..RaceSockets, cred \in Handshakes : Connect(s, cred)
    \/ \E s \in SocketIds, ct \in SerialTypes : JoinQueue(s, ct)
    \/ \E s \in SocketIds, r \in RoomIds, c \in Contents : SendMessage(s, r, c)
    \/ \E s \in SocketIds, r \in RoomIds, c \in Contents : WebrtcSignal(s, r, c)
    \/ \E s \in SocketIds, r \in RoomIds : LeaveRoom(s, r)
    \/ \E t \in tasks : MatchStep(t)
    \/ \E t \in tasks : RelayStep(t)
    \/ \E t \in tasks : LeaveStep(t)

SpecAuth == InitWith(MaxEvents, 0, 0) /\ [][NextAuth]_vars

\* Life of a room: two connections are matched, relay into the room and leave
\* it, the handlers interleaving at their awaits.
NextRoom ==
    \/ \E s \in 1..MaxSockets, cred \in Arrivals \cup {GuestCred} : Connect(s, cred)
    \/ \E s \in SocketIds, ct \in SerialTypes : JoinQueue(s, ct)
    \/ \E s \in SocketIds, r \in 1..nRooms, c \in RoomContents : SendMessage(s, r, c)
    \/ \E s \in SocketIds, r \in 1..nRooms, c \in Contents : WebrtcSignal(s, r, c)
    \/ \E s \in SocketIds, r \in 1..nRooms : LeaveRoom(s, r)
    \/ \E t \in tasks : MatchStep(t)
    \/ \E t \in tasks : RelayStep(t)
    \/ \E t \in tasks : LeaveStep(t)

SpecRoom == InitWith(RoomEvents, 0, 0) /\ [][NextRoom]_vars

\* The whole server with every handler run to completion before the next
\* client event is taken: the scheduling of a client that waits for each answer.
Idle == tasks = {}

NextSerial ==
    \/ \E s \in 1..RaceSockets, cred \in Arrivals \cup {GuestCred} : Idle /\ Connect(s, cred)
    \/ \E s \in SocketIds : Idle /\ Disconnect(s)
    \/ \E s \in SocketIds, ct \in SerialTypes : Idle /\ JoinQueue(s, ct)
    \/ \E s \in SocketIds, r \in 1..nRooms, c \in Contents : Idle /\ SendMessage(s, r, c)
    \/ \E s \in SocketIds, r \in 1..nRooms, c \in Contents : Idle /\ WebrtcSignal(s, r, c)
    \/ \E s \in SocketIds, r \in 1..nRooms : Idle /\ LeaveRoom(s, r)
    \/ \E t \in tasks : MatchStep(t)
    \/ \E t \in tasks : RelayStep(t)
    \/ \E t \in tasks : LeaveStep(t)
    \/ \E t \in tasks : DbDisconnectDelete(t)

SpecSerial == InitWith(SerialEvents, 0, MaxCloses) /\ [][NextSerial]_vars

\* The server with Supabase calls that can fail: every handler runs to
\* completion before the next client event, and up to MaxFaults of the awaited
\* calls resolve with an error.
NextFault ==
    \/ \E s \in 1..MaxSockets, cred \in Arrivals \cup {GuestCred} : Idle /\ Connect(s, cred)
    \/ \E s \in SocketIds, ct \in SerialTypes : Idle /\ JoinQueue(s, ct)
    \/ \E s \in SocketIds, r \in 1..nRooms, c \in Contents : Idle /\ SendMessage(s, r, c)
    \/ \E t \in tasks : MatchStep(t)
    \/ \E t \in tasks : RelayStep(t)
    \/ \E t \in tasks : DbFault(t)

SpecFault == InitWith(FaultEvents, MaxFaults, 0) /\ [][NextFault]_vars

\* The client hook of one tab: the user's joinQueue and leaveRoom, the
\* match-found and user-left events of the server, and the timeout callback.
NextHook ==
    \/ \E ct \in HookTypes : joinQueue(ct)
    \/ leaveRoom
    \/ \E r \in RoomIds : OnMatchFound(r)
    \/ OnUserLeft
    \/ Rejoin

SpecHook == InitWith(HookEvents, 0, 0) /\ [][NextHook]_vars

\* ------------------------------------------------------- claims
UserIds == {sockets[s].userId : s \in {x \in SocketIds : sockets[x].st # "new"}} \ {NoUser}
AuthUserIds == {u \in UserIds : ~StartsWithGuest(u)}
\* no handler that reads or writes u's queue state is suspended
Quiet(u) == \A t \in tasks : t.uid # u /\ t.other # u
WaitingEntries(u) == {i \in 1..Len(waitingUsers) : waitingUsers[i].id = u}
QueueRows(u) == {q \in user_queue : q.user_id = u}
InPool(u) == WaitingEntries(u) # {} \/ QueueRows(u) # {}
Rooms == {r \in RoomIds : chat_rooms[r] # "none"}
Members(r) == {u \in AllUserIds : <<r, u>> \in chat_participants}
MatchIdx == 1..Len(matches)

\* C1: after join-queue events of one user with no match in between, once its
\* handlers are done, the waiting pool holds exactly one entry for that user
\* (in waitingUsers and, for an authenticated user, in user_queue), and the
\* entry carries the chat type of the latest join-queue.
C1_OneEntryLatestType ==
    \A u \in UserIds :
        (lastJoin[u] # "" /\ Quiet(u)) =>
            /\ Cardinality(WaitingEntries(u)) = 1
            /\ \A i \in WaitingEntries(u) : waitingUsers[i].chatType = lastJoin[u]
            /\ ~StartsWithGuest(u) =>
                  /\ Cardinality(QueueRows(u)) = 1
                  /\ \A q \in QueueRows(u) : q.chat_type = lastJoin[u]

\* C2: when two distinct authenticated users have each sent one join-queue with
\* the same chat type and nobody else has, then once the handlers are done
\* exactly one room exists, its members are the two, and neither is in the pool.
C2_OneRoomForPair ==
    \A a, b \in AuthUserIds :
        (/\ a # b
         /\ Len(requests[a]) = 1 /\ requests[b] = requests[a]
         /\ \A u \in UserIds \ {a, b} : requests[u] = <<>>
         /\ tasks = {}) =>
            /\ Cardinality(Rooms) = 1
            /\ \A r \in Rooms : Members(r) = {a, b}
            /\ ~InPool(a) /\ ~InPool(b)

\* C3: a waiter that sent one join-queue is never the partner found by the
\* findMatch of two different callers.
C3_WaiterPairedOnce ==
    \A i, j \in MatchIdx :
        (/\ matches[i].partner = matches[j].partner
         /\ Len(requests[matches[i].partner]) = 1) =>
            matches[i].caller = matches[j].caller

\* C4: every user is a participant of at most one room whose status is active.
ActiveRoomsOf(u) == {r \in RoomIds : chat_rooms[r] = "active" /\ <<r, u>> \in chat_participants}
C4_OneActiveRoom == \A u \in UserIds : Cardinality(ActiveRoomsOf(u)) <= 1

\* C5: findMatch never pairs a user with itself: no handler holds its own user
\* as the partner it selected, and no completed pairing has the caller as its
\* partner, also when two open connections share one user identifier.
C5_NoSelfMatch ==
    /\ \A t \in tasks : t.other # t.uid
    /\ \A i \in MatchIdx : matches[i].caller # matches[i].partner
    /\ \A r \in RoomIds : Cardinality(Members(r)) # 1

\* two open connections of one user, which joined the queue from both, its
\* row in user_queue while the second findMatch has run to its end
C5_Witness ==
    \E s1, s2 \in SocketIds :
        /\ s1 # s2 /\ Open(s1) /\ Open(s2)
        /\ sockets[s1].userId = sockets[s2].userId
        /\ Len(requests[sockets[s1].userId]) = 2
        /\ QueueRows(sockets[s1].userId) # {}
        /\ tasks = {}

\* C6: for every pairing findMatch completed, exactly one match-found with
\* isInitiator true and exactly one with isInitiator false were delivered for
\* its room.
Notifications(r, init) ==
    UNION {{<<s, i>> : i \in {j \in 1..Len(received[s]) :
                                /\ received[s][j].ev = "match-found"
                                /\ received[s][j].roomId = r
                                /\ received[s][j].isInitiator = init}} : s \in SocketIds}
C6_OneInitiator ==
    \A i \in MatchIdx :
        /\ Cardinality(Notifications(matches[i].roomId, TRUE)) = 1
        /\ Cardinality(Notifications(matches[i].roomId, FALSE)) = 1

\* C7: a and b have a match-found for one room with the chat type ct, one as
\* initiator and one not
GotMatch(u, r, ct, init) ==
    \E s \in SocketIds :
        /\ sockets[s].userId = u
        /\ \E i \in 1..Len(received[s]) : received[s][i] = MatchFound(r, ct, init)
Matched(a, b, ct) ==
    \E r \in RoomIds :
        \/ GotMatch(a, r, ct, TRUE) /\ GotMatch(b, r, ct, FALSE)
        \/ GotMatch(a, r, ct, FALSE) /\ GotMatch(b, r, ct, TRUE)
OnlyJoins(a, b) ==
    /\ a # b
    /\ Len(requests[a]) = 1 /\ requests[b] = requests[a]
    /\ \A u \in UserIds \ {a, b} : requests[u] = <<>>
    /\ tasks = {}

QueuedAs(u, ct) == \E q \in QueueRows(u) : q.chat_type = ct
C8_NoRoomAcrossTypes ==
    [][\A r \in RoomIds, a, b \in AllUserIds :
          (/\ <<r, a>> \notin chat_participants
           /\ <<r, a>> \in chat_participants'
           /\ <<r, b>> \in chat_participants')
          => ~(QueuedAs(a, "text") /\ QueuedAs(b, "video"))]_vars

\* C9: the compatibility the specification requires: equal types, or the
\* wildcard on either side
Compatible(x, y) == x = y \/ x = "both" \/ y = "both"

\* C9: matching pairs a waiter and a caller whenever their chat types are
\* compatible, so two guests with compatible chat types are never left
\* waiting side by side.
C9_WildcardPairs ==
    \A i, j \in 1..Len(waitingUsers) :
        (/\ i # j
         /\ StartsWithGuest(waitingUsers[i].id)
         /\ StartsWithGuest(waitingUsers[j].id))
        => ~Compatible(waitingUsers[i].chatType, waitingUsers[j].chatType)

\* C10: a relayed new-message or webrtc-signal reaches only users whose current
\* room is the room it was sent to, and never its sender.
OwnEcho ==
    \E s \in SocketIds : \E i \in 1..Len(received[s]) :
        /\ received[s][i].ev \in {"new-message", "webrtc-signal"}
        /\ received[s][i].from = sockets[s].userId
C10_RelayOnlyToMembers == strays = {} /\ ~OwnEcho

\* C11: every new-message or webrtc-signal that was delivered came from a
\* sender that had been matched into the room it named: a relay attempt of a
\* non-member is dropped.
MatchedInto(u, r) ==
    \E i \in MatchIdx : matches[i].roomId = r /\ u \in {matches[i].caller, matches[i].partner}
C11_NonMemberDropped ==
    \A s \in SocketIds : \A i \in 1..Len(received[s]) :
        received[s][i].ev \in {"new-message", "webrtc-signal"}
            => MatchedInto(received[s][i].from, received[s][i].roomId)

\* C12: with two connections only, a user-left for a room reaches a member
\* only through leave-room events of the other member; however often that
\* member sends leave-room for the room, the partner has received at most one
\* user-left for it.
UserLeftCount(s, r) == Cardinality({i \in 1..Len(received[s]) : received[s][i] = UserLeft(r)})
OnlyTwoConnections == \A s \in SocketIds : s > 2 => sockets[s].st = "new"
C12_OneUserLeft ==
    OnlyTwoConnections => \A s \in SocketIds, r \in RoomIds : UserLeftCount(s, r) <= 1

\* connections that closed while their user was matched into a room it had not
\* left, once every handler has finished
ClosedInRoom(s, r) ==
    /\ sockets[s].st = "closed"
    /\ r \in RoomIds
    /\ curRoom[sockets[s].userId] = r
    /\ tasks = {}

\* C13: a disconnect of a matched user ends as its leave-room does: the room
\* is no longer active, the user has no waiting-pool entry and its connection
\* is not subscribed to the room.
C13_DisconnectAsLeave ==
    \A s \in SocketIds, r \in RoomIds :
        ClosedInRoom(s, r) =>
            /\ chat_rooms[r] # "active"
            /\ ~InPool(sockets[s].userId)
            /\ s \notin ioRooms[r]

\* C14: when a matched user's connection has closed without a leave-room, the
\* partner that is still connected and still in the room has received
\* user-left for the room.
Partners(u, r) ==
    {v \in AllUserIds \ {u} : \E i \in MatchIdx :
        /\ matches[i].roomId = r
        /\ {u, v} = {matches[i].caller, matches[i].partner}}
C14_PartnerToldOfDisconnect ==
    \A s \in SocketIds, r \in RoomIds :
        ClosedInRoom(s, r) =>
            \A x \in ioRooms[r] :
                (Open(x) /\ sockets[x].userId \in Partners(sockets[s].userId, r)
                         /\ curRoom[sockets[x].userId] = r)
                    => UserLeftCount(x, r) >= 1

\* a leave-room handler of a connection joined to the room completes in this step
LeaveCompletes(t) ==
    /\ t \in tasks /\ t.op = "leave-room" /\ t.pc = "lr_notify"
    /\ t \notin tasks'
    /\ t.s \in ioRooms[t.roomId]
\* what the completion of a member's leave-room does to the connections
LeaveNotifies(t) ==
    /\ \A x \in ioRooms[t.roomId] \ {t.s} :
          received'[x] = Append(received[x], UserLeft(t.roomId))
    /\ received'[t.s] = received[t.s]
    /\ t.s \notin ioRooms'[t.roomId]
\* the connection was matched into the room and is no longer joined to it
HasLeft(s, r) ==
    /\ Open(s)
    /\ s \notin ioRooms[r]
    /\ \E i \in 1..Len(received[s]) :
          received[s][i].ev = "match-found" /\ received[s][i].roomId = r
\* no relayed event for a room is added to a connection that has left it
NoRelayAfterLeave ==
    \A s \in SocketIds, r \in RoomIds :
        HasLeft(s, r) =>
            /\ s \notin ioRooms'[r]
            /\ Len(received'[s]) > Len(received[s]) =>
                  ~(/\ received'[s][Len(received'[s])].ev \in {"new-message", "webrtc-signal"}
                    /\ received'[s][Len(received'[s])].roomId = r)

C16_NoEntryAfterDisconnect ==
    \A s \in SocketIds :
        (/\ sockets[s].st = "closed"
         /\ \A t \in tasks : t.s # s
         /\ \A x \in SocketIds \ {s} : sockets[x].userId # sockets[s].userId)
        => ~InPool(sockets[s].userId)

\* the handshake is one the middleware accepts: a token the identity provider
\* verifies, or no token and a guest name
ValidHandshake(cred) ==
    \/ cred.token # NoToken /\ GetUser(cred.token) # NoUser
    \/ cred.token = NoToken /\ cred.guestUsername # ""
\* the connection has left a trace in the server
Registered(s) == \E u \in AllUserIds : activeUsers[u] = s
Acted(s) ==
    \/ \E t \in tasks : t.s = s
    \/ sent[s] # <<>>
    \/ received[s] # <<>>
    \/ \E r \in RoomIds : s \in ioRooms[r]
    \/ \E i \in 1..Len(waitingUsers) : waitingUsers[i].socket = s

EstablishedWaiter(u) ==
    /\ Quiet(u)
    /\ \E q \in QueueRows(u) : requests[u] = <<q.chat_type>>
\* the select of handler t returns the row of user o in this step
Selects(t, o) ==
    /\ t \in tasks /\ t.pc = "fm_select"
    /\ [t EXCEPT !.pc = "fm_room", !.other = o] \in tasks' \ tasks

\* C18: when the caller's select has several rows to choose from and one of
\* them is the earliest enqueued (an established waiter), the caller is paired
\* with that one.
C18_EarliestWaiterFirst ==
    [][\A t \in tasks, o \in AllUserIds :
          Selects(t, o) =>
              \A q \in QueueCandidates(t.uid, t.chatType) :
                  EstablishedWaiter(q.user_id) => o = q.user_id]_vars

\* the connections of user u
SocketsOf(u) == {s \in SocketIds : sockets[s].userId = u}
\* connection s sent the message c into room r before the message d
SentBefore(s, r, c, d) ==
    \E a, b \in 1..Len(sent[s]) : a < b /\ sent[s][a] = <<r, c>> /\ sent[s][b] = <<r, d>>

\* C19: two new-message events of one sender (with one connection) for one
\* room are received in the order in which the sender's send-message events
\* reached the server.
C19_MessagesInOrder ==
    \A x \in SocketIds : \A i, j \in 1..Len(received[x]) :
        (/\ i < j
         /\ received[x][i].ev = "new-message" /\ received[x][j].ev = "new-message"
         /\ received[x][i].from = received[x][j].from
         /\ received[x][i].roomId = received[x][j].roomId
         /\ Cardinality(SocketsOf(received[x][i].from)) = 1)
        => \A s \in SocketsOf(received[x][i].from) :
               SentBefore(s, received[x][i].roomId, received[x][i].content,
                          received[x][j].content)

\* the status of every room stays or moves forward: none, active, ended
StatusForward ==
    \A r \in RoomIds :
        /\ chat_rooms[r] = "ended" => chat_rooms'[r] = "ended"
        /\ chat_rooms[r] = "active" => chat_rooms'[r] \in {"active", "ended"}
        /\ chat_rooms[r] = "none" => chat_rooms'[r] \in {"none", "active"}
\* findMatch creates a room in this step
RoomCreated == nRooms' = nRooms + 1
\* the guest branch of findMatch creates the room and notifies in one step
GuestRoomCreated == RoomCreated /\ Len(matches') > Len(matches)
\* the chat_rooms update of a leave-room returns in this step
UpdateReturns(t) ==
    /\ t \in tasks /\ t.op = "leave-room" /\ t.pc = "lr_update"
    /\ t \notin tasks'
    /\ t.roomId \in 1..nRooms

Notified(u, r) ==
    \E s \in SocketsOf(u) : \E i \in 1..Len(received[s]) :
        received[s][i].ev = "match-found" /\ received[s][i].roomId = r

\* C21: when findMatch pairs a caller with a partner that has no live
\* connection at the notification (so the partner gets no match-found), the
\* caller gets no match-found for that room either and the room is not active.
C21_DeadPartnerRolledBack ==
    \A i \in MatchIdx :
        ~Notified(matches[i].partner, matches[i].roomId) =>
            /\ ~Notified(matches[i].caller, matches[i].roomId)
            /\ chat_rooms[matches[i].roomId] # "active"

\* the leave-room handler t finishes in this step
LeaveHandled(t) ==
    /\ t \in tasks /\ t.op = "leave-room" /\ t.pc = "lr_notify"
    /\ t \notin tasks'

\* C22: when the leave-room of a user has been handled, the waiting pool
\* (waitingUsers and user_queue) holds no entry for that user.
C22_LeaveClearsQueue ==
    [][\A t \in tasks : LeaveHandled(t) => (~InPool(t.uid))']_vars

\* u is connected, its latest join-queue asked for ct, it has not been matched
\* or disconnected since, and the waiting pool holds its entry with that type
Connected(u) == \E s \in SocketsOf(u) : Open(s)
WaitingAs(u, ct) ==
    /\ Connected(u)
    /\ lastJoin[u] = ct
    /\ \E i \in WaitingEntries(u) : waitingUsers[i].chatType = ct
    /\ ~StartsWithGuest(u) => QueuedAs(u, ct)

RoomEnded(r) ==
    \E s \in SocketIds :
        /\ s \notin ioRooms[r]
        /\ \E i \in 1..Len(received[s]) :
              received[s][i].ev = "match-found" /\ received[s][i].roomId = r
\* connection x is handed, in this step, a relayed event for room r that a user
\* matched into r (the leaver or the remaining member) has sent
RelayedTo(x, r) ==
    /\ Len(received'[x]) > Len(received[x])
    /\ received'[x][Len(received'[x])].ev \in {"new-message", "webrtc-signal"}
    /\ received'[x][Len(received'[x])].roomId = r
    /\ MatchedInto(received'[x][Len(received'[x])].from, r)

\* C24: once a leave-room for room r or the disconnect of one of its members
\* has been handled, no connection is handed a new-message or webrtc-signal
\* that the leaver or the remaining member sends for r.
C24_NoRelayAfterEnd ==
    [][\A r \in RoomIds : RoomEnded(r) => \A x \in SocketIds : ~RelayedTo(x, r)]_vars

\* the messages insert of the send-message handler t fails in this step: the
\* handler ends and no row was added
InsertFails(t) ==
    /\ t \in tasks /\ t.op = "send-message" /\ t.pc = "sm_insert"
    /\ tasks' = tasks \ {t}
    /\ messages' = messages
\* connection x holds (after this step) the new-message of handler t
HoldsMessage(x, t) ==
    \E i \in 1..Len(received'[x]) : received'[x][i] = NewMessage(t.roomId, t.uid, t.content)

\* C25: when the messages insert of a room member's send-message fails, every
\* other connection joined to the room has the new-message with that content
\* once the handler ends.
C25_RelayWithoutPersistence ==
    [][\A t \in tasks :
          (InsertFails(t) /\ t.s \in ioRooms[t.roomId] /\ chat_rooms[t.roomId] # "none") =>
              \A x \in ioRooms[t.roomId] \ {t.s} : HoldsMessage(x, t)]_vars

\* the findMatch of handler t ends at its room insert or its participants
\* insert, which failed
FindMatchFails(t) ==
    /\ t \in tasks /\ t.pc \in {"fm_room", "fm_participants"}
    /\ tasks' = tasks \ {t}
\* u has its entry in waitingUsers and its row in user_queue
StillQueued(u) == WaitingEntries(u) # {} /\ QueueRows(u) # {}

\* C26: when a findMatch ends at a failed room insert or participants insert,
\* no room is active with fewer than two participants, no match-found was
\* emitted, and the caller and the selected waiter are still in waitingUsers
\* and in user_queue.
C26_FailedMatchConsistent ==
    [][\A t \in tasks : FindMatchFails(t) =>
          /\ \A r \in RoomIds :
                chat_rooms'[r] = "active" => Cardinality(Members(r))' >= 2
          /\ received' = received
          /\ StillQueued(t.uid)' /\ StillQueued(t.other)']_vars

\* the join-queue handler t, whose queue insert failed, resumes in this step
InsertErrorHandled(t) ==
    /\ t \in tasks /\ t.op = "join-queue" /\ t.pc = "jq_insert_error"
    /\ t \notin tasks'
\* what the handler does then: the error event to its connection, waitingUsers
\* as it was, and the handler ends without a findMatch
ErrorSurfaced(t) ==
    /\ received' = Emit(received, t.s, ErrorEvent("Failed to join queue"))
    /\ waitingUsers' = waitingUsers
    /\ tasks' = tasks \ {t}
    /\ matches' = matches
\* the user_queue delete of the handler in flight for t's user failed
DeleteFailed(t) ==
    [uid |-> t.uid, op |-> "join-queue", pc |-> "jq_delete",
     k |-> Len(requests[t.uid])] \in failed

C28_NoMixedRoom ==
    /\ \A i \in MatchIdx :
          StartsWithGuest(matches[i].caller) = StartsWithGuest(matches[i].partner)
    /\ \A r \in RoomIds : \A u \in Members(r) : ~StartsWithGuest(u)
    /\ \A r \in RoomIds : \A s, x \in ioRooms[r] : sockets[s].isGuest = sockets[x].isGuest

\* a guest and an authenticated user wait with the same chat type, every
\* handler has finished, and no pairing was made
C28_Witness ==
    \E g, a \in UserIds :
        /\ StartsWithGuest(g) /\ ~StartsWithGuest(a)
        /\ tasks = {} /\ matches = <<>>
        /\ \E i \in WaitingEntries(g), j \in WaitingEntries(a) :
              waitingUsers[i].chatType = waitingUsers[j].chatType
        /\ QueueRows(a) # {}

\* C29: activeUsers maps the user of every open connection to an open
\* connection of that user, and every waitingUsers entry belongs to a user
\* that activeUsers holds.
C29_ConnectedReachable ==
    /\ \A s \in SocketIds : Open(s) =>
          /\ activeUsers[sockets[s].userId] # 0
          /\ Open(activeUsers[sockets[s].userId])
          /\ sockets[activeUsers[sockets[s].userId]].userId = sockets[s].userId
    /\ \A i \in 1..Len(waitingUsers) : activeUsers[waitingUsers[i].id] # 0

\* the hook emits a join-queue from its timeout callback in this step
AutoRejoin ==
    /\ Len(hook'.emitted) = Len(hook.emitted) + 1
    /\ hook'.emitted[Len(hook'.emitted)].auto

\* C30: the hook emits the automatic join-queue only while its state says it
\* is waiting (not after leaveRoom has set isInQueue and isInRoom to false),
\* and with the chat type of the user's latest joinQueue call.
C30_RejoinAgreesWithState ==
    [][AutoRejoin =>
          /\ hook.isInQueue
          /\ hook'.emitted[Len(hook'.emitted)].chatType = hook.chatType]_vars

====
